---- MODULE Spec2Model ----
(***************************************************************************)
(* A model of the histogrammar primitives Bag, Deviate, Fraction and       *)
(* Select: construction, zero, fill, + (combine), equality and the wire    *)
(* fragments (toJsonFragment / fromJsonFragment).                          *)
(*                                                                         *)
(* Numbers are Python floats read in exact arithmetic: a finite value is   *)
(* a reduced fraction n/d with d > 0, and the three non-finite floats are  *)
(* the pairs with d = 0 (NaN = 0/0, inf = 1/0, -inf = -1/0).  Operations   *)
(* on them follow IEEE-754 for the non-finite cases.                       *)
(***************************************************************************)
EXTENDS Integers, Sequences, FiniteSets, TLC

VARIABLES expr, h, hist, last, nops, heap

vars == <<expr, h, hist, last, nops, heap>>

(***************************************************************************)
(* Bounds of the model.                                                    *)
(***************************************************************************)
\* number of operations (fill, +, load, ed) in one behaviour of SpecAlg,
\* SpecSel and SpecWire
MaxOps == 3

\* number of fills in one behaviour of SpecFill
MaxFills == 2

(***************************************************************************)
(* Floats in exact arithmetic.                                             *)
(***************************************************************************)
Abs(i) == IF i < 0 THEN -i ELSE i

Sgn(i) == IF i < 0 THEN -1 ELSE IF i > 0 THEN 1 ELSE 0

RECURSIVE Gcd(_, _)
Gcd(a, b) == IF b = 0 THEN a ELSE Gcd(b, a % b)

\* the float n/d (d # 0), reduced, sign in the numerator
Rat(n, d) ==
    LET g == Gcd(Abs(n), Abs(d))
    IN  [n |-> Sgn(d) * (n \div g), d |-> Abs(d) \div g]

Int2F(i) == [n |-> i, d |-> 1]

NaN == [n |-> 0, d |-> 0]

Inf == [n |-> 1, d |-> 0]

NegInf == [n |-> -1, d |-> 0]

Zero == Int2F(0)

One == Int2F(1)

Two == Int2F(2)

\* math.isnan
isnan(a) == a.d = 0 /\ a.n = 0

\* math.isinf
isinf(a) == a.d = 0 /\ a.n # 0

isfinite(a) == a.d # 0

\* a + b on floats
FAdd(a, b) ==
    IF isnan(a) \/ isnan(b) THEN NaN
    ELSE IF isinf(a) /\ isinf(b) THEN (IF a.n = b.n THEN a ELSE NaN)
    ELSE IF isinf(a) THEN a
    ELSE IF isinf(b) THEN b
    ELSE Rat(a.n * b.d + b.n * a.d, a.d * b.d)

\* -a
FNeg(a) == [n |-> -a.n, d |-> a.d]

\* a - b
FSub(a, b) == FAdd(a, FNeg(b))

\* a * b (inf * 0 is NaN)
FMul(a, b) ==
    IF isnan(a) \/ isnan(b) THEN NaN
    ELSE IF isinf(a) \/ isinf(b)
         THEN (IF a.n = 0 \/ b.n = 0 THEN NaN
               ELSE [n |-> Sgn(a.n) * Sgn(b.n), d |-> 0])
    ELSE Rat(a.n * b.n, a.d * b.d)

\* a / b for b # 0.0 (every division of the code is behind a test that the
\* divisor is not zero; b = 0.0 is given NaN here to keep the operator total)
FDiv(a, b) ==
    IF isnan(a) \/ isnan(b) THEN NaN
    ELSE IF isinf(a) /\ isinf(b) THEN NaN
    ELSE IF isinf(a) THEN [n |-> Sgn(a.n) * (IF b.n < 0 THEN -1 ELSE 1), d |-> 0]
    ELSE IF isinf(b) THEN Zero
    ELSE IF b.n = 0 THEN NaN
    ELSE Rat(a.n * b.d, a.d * b.n)

\* a > 0.0 (False for NaN)
FPos(a) == a.n > 0

\* a < 0.0 (False for NaN)
FNegative(a) == a.n < 0

\* a < b (False when either is NaN)
FLess(a, b) ==
    IF isnan(a) \/ isnan(b) THEN FALSE
    ELSE IF isinf(a) \/ isinf(b)
         THEN (IF a = b THEN FALSE ELSE a = NegInf \/ b = Inf)
    ELSE a.n * b.d < b.n * a.d

\* a <= b (False when either is NaN)
FLeq(a, b) == ~isnan(a) /\ ~isnan(b) /\ (a = b \/ FLess(a, b))

\* util.numeq with exact arithmetic: NaN equals NaN, otherwise the values agree
numeq(a, b) == a = b

(***************************************************************************)
(* Python values: what a quantity function returns, the keys of a Bag and  *)
(* the scalars and lists of a wire fragment.  ty is "num", "bool", "str",  *)
(* "tup" (a list or tuple of values), "none" (None) or "raise" (the call   *)
(* itself raised).                                                         *)
(***************************************************************************)
VNum(a) == [ty |-> "num", n |-> a, s |-> "", t |-> <<>>]

VBool(b) == [ty |-> "bool", n |-> IF b THEN One ELSE Zero, s |-> "", t |-> <<>>]

VStr(str) == [ty |-> "str", n |-> Zero, s |-> str, t |-> <<>>]

VTup(seq) == [ty |-> "tup", n |-> Zero, s |-> "", t |-> seq]

VNone == [ty |-> "none", n |-> Zero, s |-> "", t |-> <<>>]

VRaise == [ty |-> "raise", n |-> Zero, s |-> "", t |-> <<>>]

\* the name of an anonymous quantity (quantity.name is None)
None == "None"

\* isinstance(v, (bool, int, long, float)), isinstance(v, numbers.Real)
isReal(v) == v.ty \in {"num", "bool"}

\* v in ("nan", "inf", "-inf")
isSentinel(v) == v.ty = "str" /\ v.s \in {"nan", "inf", "-inf"}

\* util.floatOrNan: a number stays a float, the strings "nan", "inf", "-inf"
\* become the IEEE-754 values, anything else raises
floatOrNan(v) ==
    IF isReal(v) THEN [err |-> FALSE, n |-> v.n]
    ELSE IF isSentinel(v)
         THEN [err |-> FALSE,
               n |-> IF v.s = "nan" THEN NaN ELSE IF v.s = "inf" THEN Inf ELSE NegInf]
    ELSE [err |-> TRUE, n |-> NaN]

\* util.serializable(fn) with its name slot: fn is the field of the datum the
\* function reads, "none" for serializable(None)
Quantity(fn, name) == [fn |-> fn, name |-> name]

\* self.quantity(datum); calling the quantity of a past-tense primitive raises
Call(quantity, datum) ==
    IF quantity.fn = "none" THEN VRaise ELSE datum[quantity.fn]

(***************************************************************************)
(* Primitives.  One record shape for the four kinds: values is used by     *)
(* Bag, mean and varianceTimesEntries by Deviate, kids by Fraction         *)
(* (<<numerator, denominator>>) and Select (<<cut>>).                      *)
(***************************************************************************)
NoValues == [k \in {} |-> Zero]

Bag(quantity) ==
    [kind |-> "Bag", quantity |-> quantity, entries |-> Zero, values |-> NoValues,
     mean |-> Zero, varianceTimesEntries |-> Zero, kids |-> <<>>]

Deviate(quantity) ==
    [kind |-> "Deviate", quantity |-> quantity, entries |-> Zero, values |-> NoValues,
     mean |-> Zero, varianceTimesEntries |-> Zero, kids |-> <<>>]

\* Select(quantity, cut): the cut is kept as given
Select(quantity, cut) ==
    [kind |-> "Select", quantity |-> quantity, entries |-> Zero, values |-> NoValues,
     mean |-> Zero, varianceTimesEntries |-> Zero, kids |-> <<cut>>]

\* Fraction(quantity, None): no numerator or denominator yet
FractionNone(quantity) ==
    [kind |-> "Fraction", quantity |-> quantity, entries |-> Zero, values |-> NoValues,
     mean |-> Zero, varianceTimesEntries |-> Zero, kids |-> <<>>]

numerator(self) == self.kids[1]

denominator(self) == self.kids[2]

cut(self) == self.kids[1]

\* Deviate.variance
variance(self) ==
    IF self.entries = Zero THEN self.varianceTimesEntries
    ELSE FDiv(self.varianceTimesEntries, self.entries)

(***************************************************************************)
(* zero()                                                                  *)
(***************************************************************************)
RECURSIVE zero(_)

Bag_zero(self) == Bag(self.quantity)

Deviate_zero(self) == Deviate(self.quantity)

\* Fraction.zero that keeps the children as they are
Fraction_zero_shallow(self) ==
    [FractionNone(self.quantity) EXCEPT
        !.kids = <<numerator(self), denominator(self)>>]

Fraction_zero(self) ==
    [FractionNone(self.quantity) EXCEPT
        !.kids = <<zero(numerator(self)), zero(denominator(self))>>]

Select_zero(self) == Select(self.quantity, zero(cut(self)))

zero(self) ==
    CASE self.kind = "Bag" -> Bag_zero(self)
      [] self.kind = "Deviate" -> Deviate_zero(self)
      [] self.kind = "Fraction" -> Fraction_zero(self)
      [] self.kind = "Select" -> Select_zero(self)

\* Fraction(quantity, value) with a value: both children are value.zero()
Fraction(quantity, value) ==
    [FractionNone(quantity) EXCEPT !.kids = <<zero(value), zero(value)>>]

(***************************************************************************)
(* fill(datum, weight).  The result is [err, t]: err says the call raised, *)
(* t is the primitive as the call left it (fill works in place, so what a  *)
(* raising call had already written stays written).                        *)
(***************************************************************************)
Ok(t) == [err |-> FALSE, t |-> t]

Raise(t) == [err |-> TRUE, t |-> t]

\* values[q] += weight, or values[q] = weight for a new key
Put(values, q, weight) ==
    [k \in (DOMAIN values) \cup {q} |->
        IF k = q
        THEN (IF q \in DOMAIN values THEN FAdd(values[q], weight) ELSE weight)
        ELSE values[k]]

\* the key _update makes of q: a string as it is, a list or tuple with every
\* element through floatOrNan, anything else through floatOrNan
Bag_key(q) ==
    IF q.ty = "str" THEN Ok(q)
    ELSE IF q.ty = "tup"
         THEN (IF \E i \in DOMAIN q.t : floatOrNan(q.t[i]).err
               THEN Raise(q)
               ELSE Ok(VTup([i \in DOMAIN q.t |-> VNum(floatOrNan(q.t[i]).n)])))
    ELSE IF floatOrNan(q).err THEN Raise(q)
    ELSE Ok(VNum(floatOrNan(q).n))

\* _update without self.entries += weight
Bag_update_uncounted(self, q, weight) ==
    LET key == Bag_key(q)
    IN  IF key.err THEN Raise(self)
        ELSE Ok([self EXCEPT !.values = Put(@, key.t, weight)])

\* _update with self.entries += weight moved above the type check
Bag_update_early(self, q, weight) ==
    LET key == Bag_key(q)
        counted == [self EXCEPT !.entries = FAdd(@, weight)]
    IN  IF key.err THEN Raise(counted)
        ELSE Ok([counted EXCEPT !.values = Put(@, key.t, weight)])

Bag_update(self, q, weight) ==
    LET key == Bag_key(q)
    IN  IF key.err THEN Raise(self)
        ELSE Ok([self EXCEPT !.entries = FAdd(@, weight),
                             !.values = Put(@, key.t, weight)])

Bag_fill(self, datum, weight) ==
    IF FPos(weight)
    THEN LET q == Call(self.quantity, datum)
         IN  IF q.ty = "raise" THEN Raise(self) ELSE Bag_update(self, q, weight)
    ELSE Ok(self)

\* the moments with the NaN test on q alone (math.isnan(self.mean) left out)
Deviate_moments_qOnly(self, q, weight) ==
    LET entries == FAdd(self.entries, weight)
    IN  IF isnan(q)
        THEN [self EXCEPT !.entries = entries, !.mean = NaN,
                          !.varianceTimesEntries = NaN]
        ELSE IF isinf(self.mean) \/ isinf(q)
        THEN LET m1 == IF isinf(self.mean) /\ isinf(q)
                          /\ FNegative(FMul(self.mean, q))
                       THEN NaN
                       ELSE IF isinf(q) THEN q ELSE self.mean
                 m2 == IF isinf(entries) \/ isnan(entries) THEN NaN ELSE m1
             IN  [self EXCEPT !.entries = entries, !.mean = m2,
                              !.varianceTimesEntries = NaN]
        ELSE LET delta == FSub(q, self.mean)
                 shift == FDiv(FMul(delta, weight), entries)
                 mean == FAdd(self.mean, shift)
             IN  [self EXCEPT !.entries = entries, !.mean = mean,
                     !.varianceTimesEntries =
                         FAdd(@, FMul(FMul(weight, delta), FSub(q, mean)))]

\* the moments with the infinite case leaving varianceTimesEntries as it was
Deviate_moments_keepVariance(self, q, weight) ==
    LET entries == FAdd(self.entries, weight)
    IN  IF isnan(self.mean) \/ isnan(q)
        THEN [self EXCEPT !.entries = entries, !.mean = NaN,
                          !.varianceTimesEntries = NaN]
        ELSE IF isinf(self.mean) \/ isinf(q)
        THEN LET m1 == IF isinf(self.mean) /\ isinf(q)
                          /\ FNegative(FMul(self.mean, q))
                       THEN NaN
                       ELSE IF isinf(q) THEN q ELSE self.mean
                 m2 == IF isinf(entries) \/ isnan(entries) THEN NaN ELSE m1
             IN  [self EXCEPT !.entries = entries, !.mean = m2]
        ELSE LET delta == FSub(q, self.mean)
                 shift == FDiv(FMul(delta, weight), entries)
                 mean == FAdd(self.mean, shift)
             IN  [self EXCEPT !.entries = entries, !.mean = mean,
                     !.varianceTimesEntries =
                         FAdd(@, FMul(FMul(weight, delta), FSub(q, mean)))]

\* the moments after self.entries += weight, for a real q
Deviate_moments(self, q, weight) ==
    LET entries == FAdd(self.entries, weight)
    IN  IF isnan(self.mean) \/ isnan(q)
        THEN [self EXCEPT !.entries = entries, !.mean = NaN,
                          !.varianceTimesEntries = NaN]
        ELSE IF isinf(self.mean) \/ isinf(q)
        THEN LET m1 == IF isinf(self.mean) /\ isinf(q)
                          /\ FNegative(FMul(self.mean, q))
                       THEN NaN
                       ELSE IF isinf(q) THEN q ELSE self.mean
                 m2 == IF isinf(entries) \/ isnan(entries) THEN NaN ELSE m1
             IN  [self EXCEPT !.entries = entries, !.mean = m2,
                              !.varianceTimesEntries = NaN]
        ELSE LET delta == FSub(q, self.mean)
                 shift == FDiv(FMul(delta, weight), entries)
                 mean == FAdd(self.mean, shift)
             IN  [self EXCEPT !.entries = entries, !.mean = mean,
                     !.varianceTimesEntries =
                         FAdd(@, FMul(FMul(weight, delta), FSub(q, mean)))]

Deviate_fill(self, datum, weight) ==
    IF FPos(weight)
    THEN LET q == Call(self.quantity, datum)
         IN  IF ~isReal(q) THEN Raise(self)
             ELSE Ok(Deviate_moments(self, q.n, weight))
    ELSE Ok(self)

RECURSIVE fill(_, _, _)

\* Fraction.fill with the two tests exchanged: the denominator is filled when
\* w > 0.0, the numerator when weight > 0.0
Fraction_fill_swapped(self, datum, weight) ==
    LET q == Call(self.quantity, datum)
    IN  IF ~isReal(q) THEN Raise(self)
        ELSE
        LET w == FMul(q.n, weight)
            den == IF FPos(w) THEN fill(denominator(self), datum, weight)
                   ELSE Ok(denominator(self))
            num == IF FPos(weight) THEN fill(numerator(self), datum, w)
                   ELSE Ok(numerator(self))
        IN  IF den.err
            THEN Raise([self EXCEPT !.kids = <<numerator(self), den.t>>])
            ELSE IF num.err
            THEN Raise([self EXCEPT !.kids = <<num.t, den.t>>])
            ELSE Ok([self EXCEPT !.kids = <<num.t, den.t>>,
                                 !.entries = FAdd(@, weight)])

\* Fraction.fill with the numerator filled with weight instead of w
Fraction_fill_sameWeight(self, datum, weight) ==
    LET q == Call(self.quantity, datum)
    IN  IF ~isReal(q) THEN Raise(self)
        ELSE
        LET w == FMul(q.n, weight)
            den == IF FPos(weight) THEN fill(denominator(self), datum, weight)
                   ELSE Ok(denominator(self))
            num == IF FPos(w) THEN fill(numerator(self), datum, weight)
                   ELSE Ok(numerator(self))
        IN  IF den.err
            THEN Raise([self EXCEPT !.kids = <<numerator(self), den.t>>])
            ELSE IF num.err
            THEN Raise([self EXCEPT !.kids = <<num.t, den.t>>])
            ELSE Ok([self EXCEPT !.kids = <<num.t, den.t>>,
                                 !.entries = FAdd(@, weight)])

Fraction_fill(self, datum, weight) ==
    LET q == Call(self.quantity, datum)
    IN  IF ~isReal(q) THEN Raise(self)
        ELSE
        LET w == FMul(q.n, weight)
            den == IF FPos(weight) THEN fill(denominator(self), datum, weight)
                   ELSE Ok(denominator(self))
            num == IF FPos(w) THEN fill(numerator(self), datum, w)
                   ELSE Ok(numerator(self))
        IN  IF den.err
            THEN Raise([self EXCEPT !.kids = <<numerator(self), den.t>>])
            ELSE IF num.err
            THEN Raise([self EXCEPT !.kids = <<num.t, den.t>>])
            ELSE Ok([self EXCEPT !.kids = <<num.t, den.t>>,
                                 !.entries = FAdd(@, weight)])

Select_fill(self, datum, weight) ==
    LET q == Call(self.quantity, datum)
    IN  IF ~isReal(q) THEN Raise(self)
        ELSE
        LET w == FMul(q.n, weight)
            sub == IF FPos(w) THEN fill(cut(self), datum, w) ELSE Ok(cut(self))
        IN  IF sub.err
            THEN Raise([self EXCEPT !.kids = <<sub.t>>])
            ELSE Ok([self EXCEPT !.kids = <<sub.t>>,
                                 !.entries = FAdd(@, weight)])

fill(self, datum, weight) ==
    CASE self.kind = "Bag" -> Bag_fill(self, datum, weight)
      [] self.kind = "Deviate" -> Deviate_fill(self, datum, weight)
      [] self.kind = "Fraction" -> Fraction_fill(self, datum, weight)
      [] self.kind = "Select" -> Select_fill(self, datum, weight)

(***************************************************************************)
(* self + other.  The result is [err, t]: err says the call raised         *)
(* ContainerException (t is then meaningless), t is the new primitive.     *)
(***************************************************************************)
RECURSIVE add(_, _)

\* the merge as dict.update would do it: a key of both keeps theirs' count
Bag_merge_update(mine, theirs) ==
    [k \in (DOMAIN mine) \cup (DOMAIN theirs) |->
        IF k \in DOMAIN theirs THEN theirs[k] ELSE mine[k]]

\* dict(self.values) with every (value, count) of other.values added
Bag_merge(mine, theirs) ==
    [k \in (DOMAIN mine) \cup (DOMAIN theirs) |->
        IF k \in DOMAIN mine /\ k \in DOMAIN theirs THEN FAdd(mine[k], theirs[k])
        ELSE IF k \in DOMAIN mine THEN mine[k]
        ELSE theirs[k]]

Bag_add(self, other) ==
    IF other.kind = "Bag"
    THEN Ok([Bag(self.quantity) EXCEPT
                !.entries = FAdd(self.entries, other.entries),
                !.values = Bag_merge(self.values, other.values)])
    ELSE Raise(self)

\* Deviate.__add__ without the isinstance(other, Deviate) test
Deviate_add_anyKind(self, other) ==
    LET entries == FAdd(self.entries, other.entries)
        sum == FAdd(FMul(self.entries, self.mean), FMul(other.entries, other.mean))
        mean == IF entries = Zero
                THEN FDiv(FAdd(self.mean, other.mean), Two)
                ELSE FDiv(sum, FAdd(self.entries, other.entries))
        t1 == FAdd(self.varianceTimesEntries, other.varianceTimesEntries)
        t2 == FAdd(t1, FMul(FMul(self.entries, self.mean), self.mean))
        t3 == FAdd(t2, FMul(FMul(other.entries, other.mean), other.mean))
        t4 == FSub(t3, FMul(FMul(Two, mean), sum))
        t5 == FAdd(t4, FMul(FMul(mean, mean), entries))
    IN  Ok([Deviate(self.quantity) EXCEPT
               !.entries = entries, !.mean = mean,
               !.varianceTimesEntries = t5])

\* Deviate.__add__ with the mean of the two means whatever the entries
Deviate_add_unweighted(self, other) ==
    IF other.kind = "Deviate"
    THEN LET entries == FAdd(self.entries, other.entries)
             sum == FAdd(FMul(self.entries, self.mean), FMul(other.entries, other.mean))
             mean == FDiv(FAdd(self.mean, other.mean), Two)
             t1 == FAdd(self.varianceTimesEntries, other.varianceTimesEntries)
             t2 == FAdd(t1, FMul(FMul(self.entries, self.mean), self.mean))
             t3 == FAdd(t2, FMul(FMul(other.entries, other.mean), other.mean))
             t4 == FSub(t3, FMul(FMul(Two, mean), sum))
             t5 == FAdd(t4, FMul(FMul(mean, mean), entries))
         IN  Ok([Deviate(self.quantity) EXCEPT
                    !.entries = entries, !.mean = mean,
                    !.varianceTimesEntries = t5])
    ELSE Raise(self)

Deviate_add(self, other) ==
    IF other.kind = "Deviate"
    THEN LET entries == FAdd(self.entries, other.entries)
             sum == FAdd(FMul(self.entries, self.mean), FMul(other.entries, other.mean))
             mean == IF entries = Zero
                     THEN FDiv(FAdd(self.mean, other.mean), Two)
                     ELSE FDiv(sum, FAdd(self.entries, other.entries))
             t1 == FAdd(self.varianceTimesEntries, other.varianceTimesEntries)
             t2 == FAdd(t1, FMul(FMul(self.entries, self.mean), self.mean))
             t3 == FAdd(t2, FMul(FMul(other.entries, other.mean), other.mean))
             t4 == FSub(t3, FMul(FMul(Two, mean), sum))
             t5 == FAdd(t4, FMul(FMul(mean, mean), entries))
         IN  Ok([Deviate(self.quantity) EXCEPT
                    !.entries = entries, !.mean = mean,
                    !.varianceTimesEntries = t5])
    ELSE Raise(self)

\* out = Fraction(self.quantity, None) keeps the entries 0.0 of the constructor
Fraction_add(self, other) ==
    IF other.kind = "Fraction"
    THEN LET num == add(numerator(self), numerator(other))
             den == add(denominator(self), denominator(other))
         IN  IF num.err \/ den.err THEN Raise(self)
             ELSE Ok([FractionNone(self.quantity) EXCEPT !.kids = <<num.t, den.t>>])
    ELSE Raise(self)

\* Select.__add__ without out.entries = self.entries + other.entries
Select_add_noEntries(self, other) ==
    IF other.kind = "Select"
    THEN LET sub == add(cut(self), cut(other))
         IN  IF sub.err THEN Raise(self) ELSE Ok(Select(self.quantity, sub.t))
    ELSE Raise(self)

Select_add(self, other) ==
    IF other.kind = "Select"
    THEN LET sub == add(cut(self), cut(other))
         IN  IF sub.err THEN Raise(self)
             ELSE Ok([Select(self.quantity, sub.t) EXCEPT
                         !.entries = FAdd(self.entries, other.entries)])
    ELSE Raise(self)

add(self, other) ==
    CASE self.kind = "Bag" -> Bag_add(self, other)
      [] self.kind = "Deviate" -> Deviate_add(self, other)
      [] self.kind = "Fraction" -> Fraction_add(self, other)
      [] self.kind = "Select" -> Select_add(self, other)

(***************************************************************************)
(* self == other                                                           *)
(***************************************************************************)
RECURSIVE eq(_, _)

\* self.quantity == other.quantity: the function and its name
Quantity_eq(a, b) == a = b

\* The code sorts the items of both dicts (the NaN key last) and compares
\* them pair by pair with numeq; with exact numeq two sorted lists of the
\* same length agree pair by pair exactly when the dicts hold the same items.
Bag_eq(self, other) ==
    /\ other.kind = "Bag"
    /\ Cardinality(DOMAIN self.values) = Cardinality(DOMAIN other.values)
    /\ DOMAIN self.values = DOMAIN other.values
    /\ \A k \in DOMAIN self.values : numeq(self.values[k], other.values[k])
    /\ Quantity_eq(self.quantity, other.quantity)
    /\ numeq(self.entries, other.entries)

Deviate_eq(self, other) ==
    /\ other.kind = "Deviate"
    /\ Quantity_eq(self.quantity, other.quantity)
    /\ numeq(self.entries, other.entries)
    /\ numeq(self.mean, other.mean)
    /\ numeq(variance(self), variance(other))

Fraction_eq(self, other) ==
    /\ other.kind = "Fraction"
    /\ numeq(self.entries, other.entries)
    /\ Quantity_eq(self.quantity, other.quantity)
    /\ eq(numerator(self), numerator(other))
    /\ eq(denominator(self), denominator(other))

\* Select.__eq__ does not look at the quantity
Select_eq(self, other) ==
    /\ other.kind = "Select"
    /\ numeq(self.entries, other.entries)
    /\ eq(cut(self), cut(other))

eq(self, other) ==
    CASE self.kind = "Bag" -> Bag_eq(self, other)
      [] self.kind = "Deviate" -> Deviate_eq(self, other)
      [] self.kind = "Fraction" -> Fraction_eq(self, other)
      [] self.kind = "Select" -> Select_eq(self, other)

(***************************************************************************)
(* The wire fragments.  A fragment is a record (a JSON object); its        *)
(* scalars and lists are Python values as above.                           *)
(***************************************************************************)
\* util.floatToJson: a bare number, or one of the strings "nan", "inf", "-inf"
floatToJson(x) ==
    IF isnan(x) THEN VStr("nan")
    ELSE IF x = Inf THEN VStr("inf")
    ELSE IF x = NegInf THEN VStr("-inf")
    ELSE VNum(x)

\* util.rangeToJson: a string as it is, a tuple as the list of its numbers
rangeToJson(v) ==
    IF v.ty = "str" THEN v
    ELSE IF v.ty = "tup" THEN VTup([i \in DOMAIN v.t |-> floatToJson(v.t[i].n)])
    ELSE floatToJson(v.n)

\* util.maybeAdd: json with those of the optional keys whose value is not None
maybeAdd(json, opts) ==
    json @@ [k \in {o \in DOMAIN opts : opts[o] # None} |-> opts[k]]

\* util.hasKeys: every required key, and nothing but required and optional keys
hasKeys(keys, required, optional) ==
    required \subseteq keys /\ keys \subseteq (required \cup optional)

\* json.get("name", None)
getName(json, key) == IF key \in DOMAIN json THEN json[key] ELSE None

\* the names Factory.register has seen
registered == {"Bag", "Deviate", "Fraction", "Select"}

\* the strings of the model in lexicographic order
Strings == <<"a", "inf">>

StrRank(str) == CHOOSE i \in DOMAIN Strings : Strings[i] = str

RECURSIVE TupLess(_, _)
TupLess(a, b) ==
    IF a = <<>> THEN b # <<>>
    ELSE IF b = <<>> THEN FALSE
    ELSE IF Head(a).n = Head(b).n THEN TupLess(Tail(a), Tail(b))
    ELSE FLess(Head(a).n, Head(b).n)

\* the order sorted() puts two different keys in: numbers before strings
\* before tuples, each kind in its natural order
KeyLess(a, b) ==
    IF a.ty # b.ty
    THEN a.ty = "num" \/ (a.ty = "str" /\ b.ty = "tup")
    ELSE IF a.ty = "num" THEN FLess(a.n, b.n)
    ELSE IF a.ty = "str" THEN StrRank(a.s) < StrRank(b.s)
    ELSE TupLess(a.t, b.t)

RECURSIVE sorted(_)
sorted(keys) ==
    IF keys = {} THEN <<>>
    ELSE LET first == CHOOSE k \in keys : \A o \in keys \ {k} : KeyLess(k, o)
         IN  <<first>> \o sorted(keys \ {first})

\* the NaN key of a Bag, which the code writes "nan"
nan == VNum(NaN)

RECURSIVE toJsonFragment(_, _)

Bag_toJsonFragment(self, suppressName) ==
    LET aslist == sorted({k \in DOMAIN self.values : k # nan})
                  \o (IF nan \in DOMAIN self.values THEN <<nan>> ELSE <<>>)
    IN  maybeAdd([entries |-> floatToJson(self.entries),
                  values |-> [i \in DOMAIN aslist |->
                                 [w |-> floatToJson(self.values[aslist[i]]),
                                  v |-> rangeToJson(aslist[i])]]],
                 [name |-> IF suppressName THEN None ELSE self.quantity.name])

Deviate_toJsonFragment(self, suppressName) ==
    maybeAdd([entries |-> floatToJson(self.entries),
              mean |-> floatToJson(self.mean),
              variance |-> floatToJson(variance(self))],
             [name |-> IF suppressName THEN None ELSE self.quantity.name])

Fraction_toJsonFragment(self, suppressName) ==
    LET binsName == numerator(self).quantity.name
    IN  maybeAdd([entries |-> floatToJson(self.entries),
                  type |-> numerator(self).kind,
                  numerator |-> toJsonFragment(numerator(self), TRUE),
                  denominator |-> toJsonFragment(denominator(self), TRUE)],
                 ("name" :> (IF suppressName THEN None ELSE self.quantity.name))
                    @@ ("sub:name" :> binsName))

Select_toJsonFragment(self, suppressName) ==
    maybeAdd([entries |-> floatToJson(self.entries),
              type |-> cut(self).kind,
              data |-> toJsonFragment(cut(self), FALSE)],
             [name |-> IF suppressName THEN None ELSE self.quantity.name])

toJsonFragment(self, suppressName) ==
    CASE self.kind = "Bag" -> Bag_toJsonFragment(self, suppressName)
      [] self.kind = "Deviate" -> Deviate_toJsonFragment(self, suppressName)
      [] self.kind = "Fraction" -> Fraction_toJsonFragment(self, suppressName)
      [] self.kind = "Select" -> Select_toJsonFragment(self, suppressName)

\* x in ("nan", "inf", "-inf") or isinstance(x, numbers.Real)
isJsonFloat(x) == isSentinel(x) \/ isReal(x)

\* out.quantity.name = nameFromParent if name is None else name
named(out, json, nameFromParent) ==
    LET name == getName(json, "name")
    IN  [out EXCEPT !.quantity.name = IF name = None THEN nameFromParent ELSE name]

\* Bag.ed
Bag_ed(entries, values) ==
    IF FNegative(floatOrNan(entries).n) THEN Raise(Bag(Quantity("none", None)))
    ELSE Ok([Bag(Quantity("none", None)) EXCEPT
                !.entries = floatOrNan(entries).n, !.values = values])

\* one {"w": ..., "v": ...} of a Bag fragment: the key and the weight it stores
Bag_item(nv) ==
    IF ~hasKeys(DOMAIN nv, {"w", "v"}, {}) \/ ~isJsonFloat(nv.w) THEN Raise(nv)
    ELSE IF isJsonFloat(nv.v)
         THEN Ok([w |-> floatOrNan(nv.w).n, v |-> VNum(floatOrNan(nv.v).n)])
    ELSE IF nv.v.ty = "str" THEN Ok([w |-> floatOrNan(nv.w).n, v |-> nv.v])
    ELSE IF nv.v.ty = "tup"
         THEN (IF \E j \in DOMAIN nv.v.t : ~isJsonFloat(nv.v.t[j]) THEN Raise(nv)
               ELSE Ok([w |-> floatOrNan(nv.w).n,
                        v |-> VTup([j \in DOMAIN nv.v.t |->
                                       VNum(floatOrNan(nv.v.t[j]).n)])]))
    ELSE Raise(nv)

\* values[v] = n for every item of the list, in its order
RECURSIVE Bag_items(_, _)
Bag_items(list, values) ==
    IF list = <<>> THEN Ok(values)
    ELSE LET item == Bag_item(Head(list))
         IN  IF item.err THEN Raise(values)
             ELSE Bag_items(Tail(list),
                     [k \in (DOMAIN values) \cup {item.t.v} |->
                         IF k = item.t.v THEN item.t.w ELSE values[k]])

Bag_fromJsonFragment(json, nameFromParent) ==
    IF ~hasKeys(DOMAIN json, {"entries", "values"}, {"name"})
       \/ ~isJsonFloat(json.entries)
    THEN Raise(Bag(Quantity("none", None)))
    ELSE LET values == Bag_items(json.values, NoValues)
             out == Bag_ed(json.entries, values.t)
         IN  IF values.err \/ out.err THEN Raise(Bag(Quantity("none", None)))
             ELSE Ok(named(out.t, json, nameFromParent))

\* Deviate.ed: a past-tense Deviate from its three numbers
Deviate_ed(entries, mean, var) ==
    IF FNegative(entries) THEN Raise(Deviate(Quantity("none", None)))
    ELSE Ok([Deviate(Quantity("none", None)) EXCEPT
                !.entries = entries, !.mean = mean,
                !.varianceTimesEntries = FMul(var, entries)])

Deviate_fromJsonFragment(json, nameFromParent) ==
    IF ~hasKeys(DOMAIN json, {"entries", "mean", "variance"}, {"name"})
       \/ ~isJsonFloat(json.entries) \/ ~isJsonFloat(json.mean)
       \/ ~isJsonFloat(json.variance)
    THEN Raise(Deviate(Quantity("none", None)))
    ELSE LET out == Deviate_ed(floatOrNan(json.entries).n, floatOrNan(json.mean).n,
                               floatOrNan(json.variance).n)
         IN  IF out.err THEN out ELSE Ok(named(out.t, json, nameFromParent))

\* Fraction.ed: the two children are taken as they are
Fraction_ed(entries, num, den) ==
    IF FNegative(entries) THEN Raise(FractionNone(Quantity("none", None)))
    ELSE Ok([FractionNone(Quantity("none", None)) EXCEPT
                !.entries = entries, !.kids = <<num, den>>])

\* Select.ed
Select_ed(entries, sub) ==
    IF FNegative(entries) THEN Raise(Select(Quantity("none", None), sub))
    ELSE Ok([Select(Quantity("none", None), sub) EXCEPT !.entries = entries])

RECURSIVE fromJsonFragment(_, _, _)

\* entries must be a number here: the strings "nan", "inf", "-inf" are refused
Fraction_fromJsonFragment(json, nameFromParent) ==
    IF ~hasKeys(DOMAIN json, {"entries", "type", "numerator", "denominator"},
                {"name", "sub:name"})
       \/ ~isReal(json.entries) \/ json.type \notin registered
    THEN Raise(FractionNone(Quantity("none", None)))
    ELSE LET subName == getName(json, "sub:name")
             num == fromJsonFragment(json.type, json.numerator, subName)
             den == fromJsonFragment(json.type, json.denominator, subName)
             out == Fraction_ed(json.entries.n, num.t, den.t)
         IN  IF num.err \/ den.err \/ out.err
             THEN Raise(FractionNone(Quantity("none", None)))
             ELSE Ok(named(out.t, json, nameFromParent))

Select_fromJsonFragment(json, nameFromParent) ==
    IF ~hasKeys(DOMAIN json, {"entries", "type", "data"}, {"name"})
       \/ ~isReal(json.entries) \/ json.type \notin registered
    THEN Raise(Bag(Quantity("none", None)))
    ELSE LET sub == fromJsonFragment(json.type, json.data, None)
             out == Select_ed(json.entries.n, sub.t)
         IN  IF sub.err \/ out.err THEN Raise(sub.t)
             ELSE Ok(named(out.t, json, nameFromParent))

\* Factory.registered[type].fromJsonFragment(json, nameFromParent)
fromJsonFragment(type, json, nameFromParent) ==
    CASE type = "Bag" -> Bag_fromJsonFragment(json, nameFromParent)
      [] type = "Deviate" -> Deviate_fromJsonFragment(json, nameFromParent)
      [] type = "Fraction" -> Fraction_fromJsonFragment(json, nameFromParent)
      [] type = "Select" -> Select_fromJsonFragment(json, nameFromParent)

\* the primitive read back from what self writes
reload(self) == fromJsonFragment(self.kind, toJsonFragment(self, FALSE), None)

(***************************************************************************)
(* Objects.  The trees above are values; the program's trees are objects,  *)
(* and two trees may hold the same object.  heap.obj[a] is the object at   *)
(* address a: a primitive, whose values is the address of its dict (0 when *)
(* it has none) and whose kids are the addresses of its children, or a     *)
(* dict.  heap.root[i] is the address of tree i and heap.args the trees    *)
(* the last call was made on.  Floats, strings and tuples are immutable    *)
(* and are kept in the objects; so is the quantity, which fill and + never *)
(* assign to.                                                              *)
(***************************************************************************)
NoHeap == [obj |-> <<>>, root |-> <<>>, args |-> <<>>]

\* a primitive with the state of the value t
node(t, values, kids) ==
    [kind |-> t.kind, quantity |-> t.quantity, entries |-> t.entries,
     values |-> values, mean |-> t.mean,
     varianceTimesEntries |-> t.varianceTimesEntries, kids |-> kids]

dict(items) == [kind |-> "dict", items |-> items]

\* the element of a set of one element: the({f(x) : x \in {e}}) is f(e), with
\* e worked out once
the(S) == CHOOSE x \in S : TRUE

\* a new object
alloc(hp, o) == [hp EXCEPT !.obj = Append(@, o)]

\* what a call returns: the heap it leaves and the address of its result
At(hp, at) == [err |-> FALSE, hp |-> hp, at |-> at]

Fail(hp) == [err |-> TRUE, hp |-> hp, at |-> 0]

\* the tree at address a, as a value
RECURSIVE deref(_, _)
deref(hp, a) ==
    LET o == hp.obj[a]
    IN  [kind |-> o.kind, quantity |-> o.quantity, entries |-> o.entries,
         values |-> IF o.kind = "Bag" THEN hp.obj[o.values].items ELSE NoValues,
         mean |-> o.mean, varianceTimesEntries |-> o.varianceTimesEntries,
         kids |-> [n \in DOMAIN o.kids |-> deref(hp, o.kids[n])]]

\* the addresses of the objects of the tree at address a
RECURSIVE reach(_, _)
reach(hp, a) ==
    LET o == hp.obj[a]
    IN  {a} \cup (IF o.kind = "Bag" THEN {o.values} ELSE {})
            \cup UNION {reach(hp, o.kids[n]) : n \in DOMAIN o.kids}

\* the constructors: every primitive of the tree is a new object, and a Bag
\* has a new dict
RECURSIVE new(_, _)
RECURSIVE newAll(_, _, _)
newAll(hp, ts, ats) ==
    IF ts = <<>> THEN [hp |-> hp, ats |-> ats]
    ELSE the({ newAll(r.hp, Tail(ts), Append(ats, r.at)) :
                   r \in {new(hp, Head(ts))} })

new(hp, t) ==
    the({ the({ the({ At(n, Len(n.obj)) :
        n \in {alloc(d, node(t, IF t.kind = "Bag" THEN Len(d.obj) ELSE 0,
                             k.ats))} }) :
        d \in {IF t.kind = "Bag" THEN alloc(k.hp, dict(t.values)) ELSE k.hp} }) :
        k \in {newAll(hp, t.kids, <<>>)} })

\* fill assigns to the fields of the objects it is called on, to the items
\* of their dicts and, through the children's fill, to the children: the
\* tree at address a takes the state t
RECURSIVE write(_, _, _)
RECURSIVE writeAll(_, _, _)
writeAll(hp, ats, ts) ==
    IF ats = <<>> THEN hp
    ELSE the({ writeAll(w, Tail(ats), Tail(ts)) :
                   w \in {write(hp, Head(ats), Head(ts))} })

write(hp, a, t) ==
    LET o == hp.obj[a]
    IN  the({ [(IF o.kind = "Bag"
                THEN [k EXCEPT !.obj[o.values].items = t.values]
                ELSE k)
                  EXCEPT !.obj[a].entries = t.entries,
                         !.obj[a].mean = t.mean,
                         !.obj[a].varianceTimesEntries = t.varianceTimesEntries] :
              k \in {writeAll(hp, o.kids, t.kids)} })

\* fill on the tree at address a (what a raising call had written stays)
fill_at(hp, a, datum, weight) ==
    the({ write(hp, a, t) : t \in {fill(deref(hp, a), datum, weight).t} })

\* zero() on the tree at address a: constructors all the way down
zero_at(hp, a) == the({ new(hp, t) : t \in {zero(deref(hp, a))} })

\* out.values = self.values: the dict of self itself
dict_same(hp, d) == At(hp, d)

\* out.values = dict(self.values): a new dict with the same items
dict_copy(hp, d) ==
    the({ At(n, Len(n.obj)) : n \in {alloc(hp, dict(hp.obj[d].items))} })

RECURSIVE add_at(_, _, _)

\* Bag.__add__: out is a new Bag, out.values a copy of self.values to which
\* the loop adds the items of other.values
Bag_add_at(hp, a, b) ==
    LET v == Bag_add(deref(hp, a), deref(hp, b))
    IN  IF v.err THEN Fail(hp)
        ELSE the({ the({ At(n, Len(n.obj)) :
                 n \in {alloc([c.hp EXCEPT !.obj[c.at].items =
                                  Bag_merge(@, hp.obj[hp.obj[b].values].items)],
                              node(v.t, c.at, <<>>))} }) :
                 c \in {dict_copy(hp, hp.obj[a].values)} })

\* Deviate.__add__: out is a new Deviate
Deviate_add_at(hp, a, b) ==
    LET v == Deviate_add(deref(hp, a), deref(hp, b))
    IN  IF v.err THEN Fail(hp)
        ELSE the({ At(n, Len(n.obj)) : n \in {alloc(hp, node(v.t, 0, <<>>))} })

\* Fraction.__add__: out is a new Fraction of the two sums; a sum that raises
\* ends the call
Fraction_add_at(hp, a, b) ==
    IF hp.obj[b].kind # "Fraction" THEN Fail(hp)
    ELSE LET v == Fraction_add(deref(hp, a), deref(hp, b))
         IN  the({ the({
                 IF den.err THEN Fail(den.hp)
                 ELSE the({ At(n, Len(n.obj)) :
                          n \in {alloc(den.hp,
                                       node(v.t, 0, <<num.at, den.at>>))} }) :
                 den \in {IF num.err THEN num
                          ELSE add_at(num.hp, hp.obj[a].kids[2],
                                      hp.obj[b].kids[2])} }) :
                 num \in {add_at(hp, hp.obj[a].kids[1], hp.obj[b].kids[1])} })

\* Select.__add__: out is a new Select of the sum of the cuts
Select_add_at(hp, a, b) ==
    IF hp.obj[b].kind # "Select" THEN Fail(hp)
    ELSE LET v == Select_add(deref(hp, a), deref(hp, b))
         IN  the({ IF sub.err THEN Fail(sub.hp)
                   ELSE the({ At(n, Len(n.obj)) :
                            n \in {alloc(sub.hp, node(v.t, 0, <<sub.at>>))} }) :
                   sub \in {add_at(hp, hp.obj[a].kids[1], hp.obj[b].kids[1])} })

add_at(hp, a, b) ==
    CASE hp.obj[a].kind = "Bag" -> Bag_add_at(hp, a, b)
      [] hp.obj[a].kind = "Deviate" -> Deviate_add_at(hp, a, b)
      [] hp.obj[a].kind = "Fraction" -> Fraction_add_at(hp, a, b)
      [] hp.obj[a].kind = "Select" -> Select_add_at(hp, a, b)

(***************************************************************************)
(* The expressions and the data of the model.  A datum is a record; the    *)
(* quantity of a Bag or Deviate reads its field x, a selection (the        *)
(* quantity of a Fraction or Select) reads its field s.                    *)
(***************************************************************************)
qx == Quantity("x", "x")

qs == Quantity("s", "s")

Exprs ==
    { Bag(qx), Deviate(qx),
      Fraction(qs, Deviate(qx)), Fraction(qs, Bag(qx)),
      Select(qs, Bag(qx)), Select(qs, Deviate(qx)),
      Select(qs, Fraction(qs, Deviate(qx))), Fraction(qs, Select(qs, Bag(qx))) }

\* the test's stripNames: the same expression with every quantity anonymous
RECURSIVE stripNames(_)
stripNames(x) ==
    [x EXCEPT !.quantity = Quantity(@.fn, None),
              !.kids = [i \in DOMAIN @ |-> stripNames(@[i])]]

\* trees 1 and 2 are filled (two workers), tree 3 receives sums and loads
Trees == {1, 2, 3}

Workers == {1, 2}

Reducer == CHOOSE i \in Trees : i \notin Workers

NoDatum == [x |-> VNone, s |-> VNone]

\* made: how the tree came to be ("fill": a fresh tree and fills alone, "add":
\* by + from such trees, "ed" or "load": from Deviate.ed or from the wire);
\* fills: the data it holds, in order
Stream(made, fills) == [made |-> made, fills |-> fills]

madeBy(a, b) ==
    IF a.made \in {"fill", "add"} /\ b.made \in {"fill", "add"} THEN "add" ELSE "ed"

\* the state after construction: trees 1 and 2 are the expression as written,
\* tree 3 is the same expression with its names stripped
Start(e) ==
    /\ expr = e
    /\ h = [i \in Trees |-> IF i = Reducer THEN stripNames(e) ELSE e]
    /\ hist = [i \in Trees |-> Stream("fill", <<>>)]
    /\ last = [op |-> "init", i |-> 0, err |-> FALSE, pre |-> e,
               datum |-> NoDatum, weight |-> Zero]
    /\ nops = 0
    /\ heap = NoHeap

(***************************************************************************)
(* The operations.                                                         *)
(***************************************************************************)
\* h[i].fill(datum, weight)
Fill(i, datum, weight) ==
    LET r == fill(h[i], datum, weight)
    IN  /\ h' = [h EXCEPT ![i] = r.t]
        /\ hist' = IF r.err THEN hist
                   ELSE [hist EXCEPT ![i].fills =
                            Append(@, [datum |-> datum, weight |-> weight])]
        /\ last' = [op |-> "fill", i |-> i, err |-> r.err, pre |-> h[i],
                    datum |-> datum, weight |-> weight]
        /\ nops' = nops + 1
        /\ UNCHANGED expr

\* h[k] = h[i] + h[j]
Combine(i, j, k) ==
    LET r == add(h[i], h[j])
    IN  /\ h' = IF r.err THEN h ELSE [h EXCEPT ![k] = r.t]
        /\ hist' = IF r.err THEN hist
                   ELSE [hist EXCEPT ![k] =
                            Stream(madeBy(hist[i], hist[j]),
                                   hist[i].fills \o hist[j].fills)]
        /\ last' = [op |-> "add", i |-> k, err |-> r.err, pre |-> h[k],
                    datum |-> NoDatum, weight |-> Zero]
        /\ nops' = nops + 1
        /\ UNCHANGED expr

\* h[k] = Deviate.ed(entries, mean, variance), in place of a Deviate
Ed(k, entries, mean, var) ==
    LET r == Deviate_ed(entries, mean, var)
    IN  /\ h[k].kind = "Deviate"
        /\ h' = IF r.err THEN h ELSE [h EXCEPT ![k] = r.t]
        /\ hist' = IF r.err THEN hist ELSE [hist EXCEPT ![k] = Stream("ed", <<>>)]
        /\ last' = [op |-> "ed", i |-> k, err |-> r.err, pre |-> h[k],
                    datum |-> NoDatum, weight |-> Zero]
        /\ nops' = nops + 1
        /\ UNCHANGED expr

\* h[k] = what is read back from the fragment h[i] writes
Load(i, k) ==
    LET r == reload(h[i])
    IN  /\ h' = IF r.err THEN h ELSE [h EXCEPT ![k] = r.t]
        /\ hist' = IF r.err THEN hist
                   ELSE [hist EXCEPT ![k] = Stream("load", hist[i].fills)]
        /\ last' = [op |-> "load", i |-> k, err |-> r.err, pre |-> h[i],
                    datum |-> NoDatum, weight |-> Zero]
        /\ nops' = nops + 1
        /\ UNCHANGED expr

(***************************************************************************)
(* SpecAlg, the algebra of +: finite data filled with weight 1 into two    *)
(* trees, sums of any two trees, and past-tense Deviates from Deviate.ed.  *)
(***************************************************************************)
AlgData == [x : {VNum(One), VNum(Int2F(3))}, s : {VBool(TRUE), VBool(FALSE)}]

AlgWeights == {One}

EdEntries == {Zero, One}

EdMeans == {Zero, Two}

EdVariances == {Zero}

InitAlg == \E e \in Exprs : Start(e)

NextAlg ==
    /\ nops < MaxOps
    /\ UNCHANGED heap
    /\ \/ \E i \in Workers, datum \in AlgData, weight \in AlgWeights :
             Fill(i, datum, weight)
       \/ \E i \in Trees, j \in Trees : Combine(i, j, Reducer)
       \/ \E entries \in EdEntries, mean \in EdMeans, var \in EdVariances :
             Ed(Reducer, entries, mean, var)

SpecAlg == InitAlg /\ [][NextAlg]_vars

(***************************************************************************)
(* SpecFill, fill alone: one tree filled with well-typed and ill-typed     *)
(* data, boolean and numeric selections, and weights of every sign.        *)
(***************************************************************************)
FillData ==
    [x : {VNum(One), VNone},
     s : {VBool(TRUE), VBool(FALSE), VNum(Two), VNum(Int2F(-1)), VNum(NaN),
          VNone}]

FillWeights == {One, Zero, Int2F(-1)}

InitFill == \E e \in Exprs : Start(e)

NextFill ==
    /\ nops < MaxFills
    /\ UNCHANGED heap
    /\ \E datum \in FillData, weight \in FillWeights : Fill(1, datum, weight)

SpecFill == InitFill /\ [][NextFill]_vars

(***************************************************************************)
(* SpecSel, Select under fill and +: boolean and numeric selections and    *)
(* weights of both signs.                                                  *)
(***************************************************************************)
SelExprs == {e \in Exprs : e.kind = "Select"}

SelData == [x : {VNum(One)}, s : {VBool(TRUE), VBool(FALSE), VNum(Two)}]

SelWeights == {One, Int2F(-1)}

InitSel == \E e \in SelExprs : Start(e)

NextSel ==
    /\ nops < MaxOps
    /\ UNCHANGED heap
    /\ \/ \E i \in Workers, datum \in SelData, weight \in SelWeights :
             Fill(i, datum, weight)
       \/ \E i \in Trees, j \in Trees : Combine(i, j, Reducer)

SpecSel == InitSel /\ [][NextSel]_vars

(***************************************************************************)
(* SpecWire, the wire round trip: trees made by fill and +, written and    *)
(* read back.                                                              *)
(***************************************************************************)
WireData == [x : {VNum(One), VStr("inf")}, s : {VBool(TRUE), VNum(Two)}]

WireWeights == {One}

InitWire == \E e \in Exprs : Start(e)

NextWire ==
    /\ nops < MaxOps
    /\ UNCHANGED heap
    /\ \/ \E i \in Workers, datum \in WireData, weight \in WireWeights :
             Fill(i, datum, weight)
       \/ \E i \in Workers, j \in Workers : Combine(i, j, Reducer)
       \/ \E i \in Trees : Load(i, Reducer)

SpecWire == InitWire /\ [][NextWire]_vars

(***************************************************************************)
(* SpecDev, the moments of a Deviate: finite, infinite and NaN quantities  *)
(* filled with finite, zero and infinite weights.                          *)
(***************************************************************************)
DevExprs == {e \in Exprs : e.kind = "Deviate"}

DevData ==
    [x : {VNum(One), VNum(Int2F(3)), VNum(NaN), VNum(Inf), VNum(NegInf)},
     s : {VBool(TRUE)}]

DevWeights == {One, Two, Zero, Inf}

InitDev == \E e \in DevExprs : Start(e)

NextDev ==
    /\ nops < MaxOps
    /\ UNCHANGED heap
    /\ \E datum \in DevData, weight \in DevWeights : Fill(1, datum, weight)

SpecDev == InitDev /\ [][NextDev]_vars

(***************************************************************************)
(* SpecHeap, the trees as objects: two trees of one expression or of two   *)
(* expressions that do not combine, filled, summed and zeroed.  h is what  *)
(* each tree holds when every call changes only the tree it is made on or  *)
(* returns; heap is what the objects hold.                                 *)
(***************************************************************************)
\* pairs of expressions whose + raises: different kinds, and the same kind
\* with children that do not combine
Mismatched ==
    { <<Bag(qx), Deviate(qx)>>,
      <<Select(qs, Bag(qx)), Fraction(qs, Bag(qx))>>,
      <<Select(qs, Bag(qx)), Select(qs, Deviate(qx))>>,
      <<Fraction(qs, Deviate(qx)), Fraction(qs, Bag(qx))>>,
      <<Select(qs, Fraction(qs, Deviate(qx))), Select(qs, Deviate(qx))>> }

HeapPairs == {<<e, e>> : e \in Exprs} \cup Mismatched

HeapData == { [x |-> VNum(One), s |-> VBool(TRUE)],
              [x |-> VNum(Int2F(3)), s |-> VBool(FALSE)] }

HeapWeights == {One}

\* h1 = eval(e1), h2 = eval(e2), and e1 once more with its names stripped
StartAt(e1, e2) ==
    \E r1 \in {new(NoHeap, e1)} : \E r2 \in {new(r1.hp, e2)} :
    \E r3 \in {new(r2.hp, stripNames(e1))} :
        /\ expr = e1
        /\ h = [i \in Trees |->
                   IF i = Reducer THEN stripNames(e1)
                   ELSE IF i = 1 THEN e1 ELSE e2]
        /\ hist = [i \in Trees |-> Stream("fill", <<>>)]
        /\ last = [op |-> "init", i |-> 0, err |-> FALSE, pre |-> e1,
                   datum |-> NoDatum, weight |-> Zero]
        /\ nops = 0
        /\ heap = [r3.hp EXCEPT !.root = <<r1.at, r2.at, r3.at>>]

\* h[i].fill(datum, weight), on the objects
FillAt(i, datum, weight) ==
    /\ Fill(i, datum, weight)
    /\ heap' = [fill_at(heap, heap.root[i], datum, weight) EXCEPT !.args = <<i>>]

\* h[k] = h[i] + h[j], on the objects
CombineAt(i, j, k) ==
    \E r \in {add_at(heap, heap.root[i], heap.root[j])} :
        /\ Combine(i, j, k)
        /\ heap' = [r.hp EXCEPT !.root[k] = IF r.err THEN @ ELSE r.at,
                                !.args = <<i, j>>]

\* h[k] = h[i].zero()
ZeroAt(i, k) ==
    \E r \in {zero_at(heap, heap.root[i])} :
        /\ h' = [h EXCEPT ![k] = zero(h[i])]
        /\ hist' = [hist EXCEPT ![k] = Stream("fill", <<>>)]
        /\ last' = [op |-> "zero", i |-> k, err |-> FALSE, pre |-> h[i],
                    datum |-> NoDatum, weight |-> Zero]
        /\ nops' = nops + 1
        /\ heap' = [r.hp EXCEPT !.root[k] = r.at, !.args = <<i>>]
        /\ UNCHANGED expr

InitHeap == \E p \in HeapPairs : StartAt(p[1], p[2])

NextHeap ==
    /\ nops < MaxOps
    /\ \/ \E i \in Trees, datum \in HeapData, weight \in HeapWeights :
             FillAt(i, datum, weight)
       \/ \E i \in Workers, j \in Workers : CombineAt(i, j, Reducer)
       \/ \E i \in Workers : ZeroAt(i, Reducer)

SpecHeap == InitHeap /\ [][NextHeap]_vars

(***************************************************************************)
(* SpecLoad, Fraction fragments read from the wire: two trees of one       *)
(* expression or of two, filled, and the fragment of a Fraction whose      *)
(* numerator is what one tree writes and whose denominator is what the     *)
(* other writes.                                                           *)
(***************************************************************************)
LoadPairs == HeapPairs

LoadData == { [x |-> VNum(One), s |-> VBool(TRUE)],
              [x |-> VNum(Int2F(3)), s |-> VBool(FALSE)] }

LoadWeights == {One}

\* h1 = eval(e1), h2 = eval(e2), and e1 once more with its names stripped
StartPair(e1, e2) ==
    /\ expr = e1
    /\ h = [i \in Trees |->
               IF i = Reducer THEN stripNames(e1)
               ELSE IF i = 1 THEN e1 ELSE e2]
    /\ hist = [i \in Trees |-> Stream("fill", <<>>)]
    /\ last = [op |-> "init", i |-> 0, err |-> FALSE, pre |-> e1,
               datum |-> NoDatum, weight |-> Zero]
    /\ nops = 0
    /\ heap = NoHeap

\* the fragment of a Fraction with these two children, as toJsonFragment
\* lays it out
spliced(num, den) ==
    maybeAdd([entries |-> floatToJson(den.entries),
              type |-> num.kind,
              numerator |-> toJsonFragment(num, TRUE),
              denominator |-> toJsonFragment(den, TRUE)],
             ("name" :> None) @@ ("sub:name" :> num.quantity.name))

\* h[k] = Fraction.fromJsonFragment(json, None) for the fragment with the
\* numerator h[i] writes and the denominator h[j] writes
LoadFraction(i, j, k) ==
    LET r == Fraction_fromJsonFragment(spliced(h[i], h[j]), None)
    IN  /\ h' = IF r.err THEN h ELSE [h EXCEPT ![k] = r.t]
        /\ hist' = IF r.err THEN hist
                   ELSE [hist EXCEPT ![k] = Stream("load", hist[j].fills)]
        /\ last' = [op |-> "loadFraction", i |-> k, err |-> r.err,
                    pre |-> h[i], datum |-> NoDatum, weight |-> Zero]
        /\ nops' = nops + 1
        /\ UNCHANGED expr

InitLoad == \E p \in LoadPairs : StartPair(p[1], p[2])

NextLoad ==
    /\ nops < MaxOps
    /\ UNCHANGED heap
    /\ \/ \E i \in Workers, datum \in LoadData, weight \in LoadWeights :
             Fill(i, datum, weight)
       \/ \E i \in Workers, j \in Workers : LoadFraction(i, j, Reducer)

SpecLoad == InitLoad /\ [][NextLoad]_vars

(***************************************************************************)
(* What the claims compare.                                                *)
(***************************************************************************)
\* the same entries and the same state at every node, whatever the quantities
RECURSIVE SameState(_, _)
SameState(a, b) ==
    /\ a.kind = b.kind
    /\ a.entries = b.entries
    /\ a.values = b.values
    /\ a.mean = b.mean
    /\ a.varianceTimesEntries = b.varianceTimesEntries
    /\ Len(a.kids) = Len(b.kids)
    /\ \A n \in DOMAIN a.kids : n \in DOMAIN b.kids /\ SameState(a.kids[n], b.kids[n])

\* the same kinds and the same quantity at every node
RECURSIVE SameQuantities(_, _)
SameQuantities(a, b) ==
    /\ a.kind = b.kind
    /\ a.quantity = b.quantity
    /\ Len(a.kids) = Len(b.kids)
    /\ \A n \in DOMAIN a.kids :
          n \in DOMAIN b.kids /\ SameQuantities(a.kids[n], b.kids[n])

\* t filled with the stream, one datum after the other
RECURSIVE fillAll(_, _)
fillAll(t, fills) ==
    IF fills = <<>> THEN t
    ELSE fillAll(fill(t, Head(fills).datum, Head(fills).weight).t, Tail(fills))

\* every Deviate of the tree that has entries 0 has mean 0
RECURSIVE EmptyMeansZero(_)
EmptyMeansZero(t) ==
    /\ (t.kind = "Deviate" /\ t.entries = Zero) => t.mean = Zero
    /\ \A n \in DOMAIN t.kids : EmptyMeansZero(t.kids[n])

\* a + b, which does not raise on the trees of one expression
plus(a, b) == add(a, b).t

(***************************************************************************)
(* The claims about + (SpecAlg).                                           *)
(***************************************************************************)
\* C1: zero is the identity of +: for every tree P made from a fresh one by
\* fills, P + P.zero() and P.zero() + P have the entries and the state of P at
\* every node.
C1_ZeroIsIdentity ==
    \A i \in Trees :
        hist[i].made = "fill" =>
            /\ SameState(plus(h[i], zero(h[i])), h[i])
            /\ SameState(plus(zero(h[i]), h[i]), h[i])

\* C2: fill/combine equivalence: two fresh trees filled with streams s1 and s2
\* (weight 1) and combined with + have the entries and the state, at every
\* node, of one fresh tree filled with s1 followed by s2.
C2_FillCombineEquivalence ==
    \A i \in Trees, j \in Trees :
        (hist[i].made = "fill" /\ hist[j].made = "fill") =>
            SameState(plus(h[i], h[j]), fillAll(expr, hist[i].fills \o hist[j].fills))

\* C3: + adds entries: the entries of A + B are A.entries + B.entries, for
\* every two trees of the same kind.
C3_CombineAddsEntries ==
    \A i \in Trees, j \in Trees :
        plus(h[i], h[j]).entries = FAdd(h[i].entries, h[j].entries)

\* C4 as claimed: A + B == B + A for every two trees of the same kind and
\* child shape, by the primitive's own equality.
C4_Commutative_AnyQuantity ==
    \A i \in Trees, j \in Trees : eq(plus(h[i], h[j]), plus(h[j], h[i]))

\* C4 as amended: A + B == B + A, by the primitive's own equality, for every
\* two trees of the same kind and child shape that carry the same quantity at
\* every node.
C4_Commutative ==
    \A i \in Trees, j \in Trees :
        SameQuantities(h[i], h[j]) => eq(plus(h[i], h[j]), plus(h[j], h[i]))

\* two trees with the same quantities, both filled, with different state
C4_Witness ==
    /\ SameQuantities(h[1], h[2])
    /\ FPos(h[1].entries) /\ FPos(h[2].entries)
    /\ ~SameState(h[1], h[2])
    /\ FPos(plus(h[1], h[2]).entries)

\* C5 as claimed: (A + B) + C == A + (B + C) for every three trees of the same
\* shape, Deviates with entries 0 and a mean that is not 0 included.
C5_Associative_AnyDeviate ==
    \A i \in Trees, j \in Trees, k \in Trees :
        eq(plus(plus(h[i], h[j]), h[k]), plus(h[i], plus(h[j], h[k])))

\* C5 as amended: (A + B) + C == A + (B + C) for every three trees of the same
\* shape in which every Deviate with entries 0 has mean 0 (every tree made
\* from fresh ones by fill and + is one).
C5_Associative ==
    \A i \in Trees, j \in Trees, k \in Trees :
        (EmptyMeansZero(h[i]) /\ EmptyMeansZero(h[j]) /\ EmptyMeansZero(h[k])) =>
            eq(plus(plus(h[i], h[j]), h[k]), plus(h[i], plus(h[j], h[k])))

\* three trees with entries, two of them with different state, one of them a
\* sum, all with the mean 0 where a Deviate is empty
C5_Witness ==
    /\ \A i \in Trees : FPos(h[i].entries) /\ EmptyMeansZero(h[i])
    /\ ~SameState(h[1], h[2])
    /\ hist[3].made = "add"

(***************************************************************************)
(* The claim about the wire (SpecWire).                                    *)
(***************************************************************************)
\* the same entries, the same own state and the same quantity name at every
\* node
RECURSIVE SameContent(_, _)
SameContent(a, b) ==
    /\ a.kind = b.kind
    /\ a.quantity.name = b.quantity.name
    /\ a.entries = b.entries
    /\ a.values = b.values
    /\ a.mean = b.mean
    /\ variance(a) = variance(b)
    /\ Len(a.kids) = Len(b.kids)
    /\ \A n \in DOMAIN a.kids :
          n \in DOMAIN b.kids /\ SameContent(a.kids[n], b.kids[n])

\* C6: wire round trip: for every tree made from fresh ones by fill and +,
\* reading back the fragment it writes succeeds and gives the same entries,
\* the same own state and the same quantity name at every node.
C6_WireRoundTrip ==
    \A i \in Trees :
        hist[i].made \in {"fill", "add"} =>
            /\ ~reload(h[i]).err
            /\ SameContent(reload(h[i]).t, h[i])

(***************************************************************************)
(* The claims about fill (SpecFill).                                       *)
(***************************************************************************)
\* C7: a fill that raises leaves the tree as it was before the call: the
\* entries and the state of the node and of every descendant.
C7_FailedFillChangesNothing ==
    (last.op = "fill" /\ last.err) => h[last.i] = last.pre

\* a fill that raised below the root (the selection was good, the quantity of
\* a descendant was not) on a tree that already held a datum
C7_Witness ==
    /\ last.op = "fill" /\ last.err
    /\ last.pre.kids # <<>>
    /\ FPos(last.pre.entries)
    /\ last.datum.s = VBool(TRUE)
    /\ last.datum.x = VNone
    /\ FPos(last.weight)

\* C8: entries is never negative, no fill makes it smaller, and a fill of a
\* Fraction or a Select with weight >= 0 adds the weight to it.
C8_EntriesMonotone ==
    /\ \A i \in Trees : ~FNegative(h[i].entries)
    /\ (last.op = "fill" /\ ~last.err) =>
          /\ FLeq(last.pre.entries, h[last.i].entries)
          /\ (h[last.i].kind \in {"Fraction", "Select"} /\ ~FNegative(last.weight)) =>
                h[last.i].entries = FAdd(last.pre.entries, last.weight)

\* a selection between 0 and 1, True and False included
InUnit(v) == isReal(v) /\ FLeq(Zero, v.n) /\ FLeq(v.n, One)

\* a stream whose selections are between 0 and 1 and whose weights are not
\* negative
Plain(fills) ==
    \A n \in DOMAIN fills :
        InUnit(fills[n].datum.s) /\ ~FNegative(fills[n].weight)

\* C9 as claimed: after any fills of a fresh Fraction (boolean or numeric
\* selection, any finite weight), numerator.entries <= denominator.entries
\* and denominator.entries == entries.
C9_FractionConsistent_AnyFill ==
    \A i \in Trees :
        h[i].kind = "Fraction" =>
            /\ FLeq(numerator(h[i]).entries, denominator(h[i]).entries)
            /\ denominator(h[i]).entries = h[i].entries

\* C9 as amended: after fills of a fresh Fraction whose selections are between
\* 0 and 1 and whose weights are not negative, numerator.entries <=
\* denominator.entries and denominator.entries == entries.
C9_FractionConsistent ==
    \A i \in Trees :
        (h[i].kind = "Fraction" /\ Plain(hist[i].fills)) =>
            /\ FLeq(numerator(h[i]).entries, denominator(h[i]).entries)
            /\ denominator(h[i]).entries = h[i].entries

\* a Fraction after two such fills, one that passed and one that did not
C9_Witness ==
    /\ h[1].kind = "Fraction"
    /\ Len(hist[1].fills) = 2
    /\ Plain(hist[1].fills)
    /\ FPos(numerator(h[1]).entries)
    /\ FLess(numerator(h[1]).entries, denominator(h[1]).entries)

\* C18: Fraction.fill postcondition: with s the selection of the datum and
\* w = s * weight, a fill that succeeded has filled the denominator with
\* (datum, weight) exactly when weight > 0 and the numerator with (datum, w)
\* exactly when w > 0, has left a child it did not fill as it was, and has
\* added weight to entries; a NaN selection with weight > 0 fills the
\* denominator and leaves the numerator as it was.
C18_FractionFill ==
    (last.op = "fill" /\ ~last.err /\ last.pre.kind = "Fraction") =>
        LET pre == last.pre
            post == h[last.i]
            s == Call(pre.quantity, last.datum)
            w == FMul(s.n, last.weight)
        IN  /\ denominator(post) =
                  IF FPos(last.weight)
                  THEN fill(denominator(pre), last.datum, last.weight).t
                  ELSE denominator(pre)
            /\ numerator(post) =
                  IF FPos(w)
                  THEN fill(numerator(pre), last.datum, w).t
                  ELSE numerator(pre)
            /\ post.entries = FAdd(pre.entries, last.weight)
            /\ (isnan(s.n) /\ FPos(last.weight)) =>
                  /\ numerator(post) = numerator(pre)
                  /\ denominator(post) # denominator(pre)

\* a Fraction that held a datum in both children and was then filled with a
\* NaN selection and a positive weight
C18_Witness ==
    /\ last.op = "fill" /\ ~last.err /\ last.pre.kind = "Fraction"
    /\ isnan(Call(last.pre.quantity, last.datum).n)
    /\ FPos(last.weight)
    /\ FPos(numerator(last.pre).entries)
    /\ FLess(denominator(last.pre).entries, denominator(h[last.i]).entries)

(***************************************************************************)
(* The claim about Select (SpecSel).                                       *)
(***************************************************************************)
\* C10 as claimed: after any fills and sums of fresh Selects (boolean or
\* numeric selection), cut.entries <= entries.
C10_SelectConsistent_AnyFill ==
    \A i \in Trees :
        h[i].kind = "Select" => FLeq(cut(h[i]).entries, h[i].entries)

\* C10 as amended: after fills and sums of fresh Selects whose selections are
\* between 0 and 1 and whose weights are not negative, cut.entries <= entries.
C10_SelectConsistent ==
    \A i \in Trees :
        (h[i].kind = "Select" /\ Plain(hist[i].fills)) =>
            FLeq(cut(h[i]).entries, h[i].entries)

\* a sum of two Selects filled that way, one with a datum that passed and one
\* with a datum that did not
C10_Witness ==
    /\ hist[Reducer].made = "add"
    /\ Plain(hist[Reducer].fills)
    /\ FPos(cut(h[Reducer]).entries)
    /\ FLess(cut(h[Reducer]).entries, h[Reducer].entries)

(***************************************************************************)
(* The claims about Bag (SpecWire).                                        *)
(***************************************************************************)
\* the sum of the weights a dict of values holds
RECURSIVE Mass(_)
Mass(values) ==
    IF DOMAIN values = {} THEN Zero
    ELSE LET k == CHOOSE q \in DOMAIN values : TRUE
         IN  FAdd(values[k], Mass([q \in (DOMAIN values) \ {k} |-> values[q]]))

\* every Bag of the tree holds as much weight in values as entries says
RECURSIVE BagMass(_)
BagMass(t) ==
    /\ t.kind = "Bag" => Mass(t.values) = t.entries
    /\ \A n \in DOMAIN t.kids : BagMass(t.kids[n])

\* C11: Bag mass: in every Bag made from a fresh one by fill and +, the
\* weights stored in values sum to entries.
C11_BagMass ==
    \A i \in Trees : hist[i].made \in {"fill", "add"} => BagMass(h[i])

\* a Bag that is a sum and holds two keys, one of them with more than one
\* datum
C11_Witness ==
    /\ h[Reducer].kind = "Bag"
    /\ hist[Reducer].made = "add"
    /\ Cardinality(DOMAIN h[Reducer].values) = 2
    /\ \E k \in DOMAIN h[Reducer].values : FLess(One, h[Reducer].values[k])

\* all keys of every Bag of the tree are of one kind
RECURSIVE OneKeyKind(_)
OneKeyKind(t) ==
    /\ t.kind = "Bag" =>
           \A k1 \in DOMAIN t.values, k2 \in DOMAIN t.values : k1.ty = k2.ty
    /\ \A n \in DOMAIN t.kids : OneKeyKind(t.kids[n])

\* C15: one key kind per Bag: in every reachable state all keys of a Bag are
\* of one kind (all strings, all numbers or all tuples), because a fill or a
\* + that would mix kinds fails and adds no key.
C15_OneKeyKind ==
    \A i \in Trees : OneKeyKind(h[i])

(***************************************************************************)
(* The claim about equality (SpecFill).                                    *)
(***************************************************************************)
\* the primitive with its own quantity under another name, everything else
\* the same
renamed(t, name) == [t EXCEPT !.quantity = Quantity(@.fn, name)]

\* C17: quantity identity is part of equality: a Bag, Deviate, Fraction or
\* Select is not equal to the primitive with the same entries, state and
\* children whose own quantity has another name (anonymous or different).
C17_QuantityInEquality ==
    \A i \in Trees, name \in {None, "other"} :
        name # h[i].quantity.name => ~eq(h[i], renamed(h[i], name))

(***************************************************************************)
(* The claims about the moments of a Deviate (SpecDev).                    *)
(***************************************************************************)
\* a fill of the stream supplied a NaN quantity with a positive weight
Poisoned(fills) ==
    \E n \in DOMAIN fills :
        /\ fills[n].datum.x.ty = "num"
        /\ isnan(fills[n].datum.x.n)
        /\ FPos(fills[n].weight)

\* C12: NaN poisoning: once a fill with positive weight has supplied a NaN
\* quantity to a Deviate, its mean and its variance are NaN in every later
\* state, whatever finite or infinite values are filled afterwards.
C12_NaNPoisoning ==
    \A i \in Trees :
        (h[i].kind = "Deviate" /\ Poisoned(hist[i].fills)) =>
            isnan(h[i].mean) /\ isnan(variance(h[i]))

\* a Deviate that was given NaN first, then a finite and then an infinite
\* value, all with positive weights
C12_Witness ==
    /\ h[1].kind = "Deviate"
    /\ Len(hist[1].fills) = 3
    /\ isnan(hist[1].fills[1].datum.x.n) /\ FPos(hist[1].fills[1].weight)
    /\ isfinite(hist[1].fills[2].datum.x.n) /\ FPos(hist[1].fills[2].weight)
    /\ isinf(hist[1].fills[3].datum.x.n) /\ FPos(hist[1].fills[3].weight)

\* C19: the infinite-value rule: after a fill with positive weight where
\* neither the mean nor the quantity q is NaN and one of them is infinite,
\* entries has grown by the weight, varianceTimesEntries is NaN, and the mean
\* is NaN if the new entries is not finite or the two are infinities of
\* opposite sign, else q if q is infinite, else the mean as it was.
C19_InfiniteRule ==
    LET pre == last.pre
        q == last.datum.x.n
        post == h[last.i]
    IN  (/\ last.op = "fill" /\ ~last.err /\ FPos(last.weight)
         /\ pre.kind = "Deviate"
         /\ ~isnan(pre.mean) /\ ~isnan(q)
         /\ (isinf(pre.mean) \/ isinf(q))) =>
            /\ post.entries = FAdd(pre.entries, last.weight)
            /\ isnan(post.varianceTimesEntries)
            /\ post.mean =
                  IF ~isfinite(post.entries) THEN NaN
                  ELSE IF isinf(pre.mean) /\ isinf(q) /\ pre.mean # q THEN NaN
                  ELSE IF isinf(q) THEN q
                  ELSE pre.mean

\* a finite value filled with a finite positive weight into a Deviate whose
\* mean is infinite: the mean stays as it was
C19_Witness ==
    /\ last.op = "fill" /\ ~last.err
    /\ last.pre.kind = "Deviate"
    /\ isinf(last.pre.mean)
    /\ isfinite(last.datum.x.n)
    /\ FPos(last.weight) /\ isfinite(last.weight)
    /\ h[last.i].mean = last.pre.mean

(***************************************************************************)
(* The claims about the objects (SpecHeap).                                *)
(***************************************************************************)
\* the tree i as the objects hold it
held(hp, i) == deref(hp, hp.root[i])

\* C13: + does not touch its operands and shares nothing with them: after
\* any fills, sums and zeros every tree holds what the calls made on it (or
\* returning it) gave it, and no object belongs to two trees, so a later fill
\* on the result, on A or on B changes only the tree it is called on.
C13_CombineLeavesOperands ==
    /\ \A i \in Trees : held(heap, i) = h[i]
    /\ \A i \in Trees, j \in Trees :
          i # j => reach(heap, heap.root[i]) \cap reach(heap, heap.root[j]) = {}

\* a fill on a sum of two filled trees that changed the sum
C13_Witness ==
    /\ hist[Reducer].made = "add"
    /\ heap.args = <<Reducer>>
    /\ last.op = "fill" /\ ~last.err
    /\ h[Reducer] # last.pre
    /\ \E i \in Workers : FPos(h[i].entries)

\* the same kind at every node
RECURSIVE SameShape(_, _)
SameShape(a, b) ==
    /\ a.kind = b.kind
    /\ Len(a.kids) = Len(b.kids)
    /\ \A n \in DOMAIN a.kids :
          n \in DOMAIN b.kids /\ SameShape(a.kids[n], b.kids[n])

\* C14: shape mismatch: A + B raises and returns no result whenever B is of
\* another kind than A or their children, at any depth, are of different
\* kinds; A, B and every other tree are then as they were before the call.
C14_ShapeMismatch ==
    [][\A i \in Workers, j \in Workers :
          (/\ last'.op = "add" /\ nops' = nops + 1
           /\ heap'.args = <<i, j>>
           /\ ~SameShape(h[i], h[j])) =>
             /\ last'.err
             /\ h' = h
             /\ heap'.root = heap.root
             /\ \A t \in Trees : held(heap', t) = held(heap, t)]_vars

\* a sum of two filled trees of one kind whose children are of two kinds has
\* raised
C14_Witness ==
    /\ last.op = "add" /\ last.err
    /\ heap.args = <<1, 2>>
    /\ h[1].kind = h[2].kind
    /\ h[1].kids # <<>>
    /\ FPos(h[1].entries) /\ FPos(h[2].entries)

\* C16: zero() resets without side effect: P.zero() on a filled tree P of the
\* expression is the expression as constructed (entries 0, no values, mean
\* and variance 0, children zeroed, the same quantities), equal to it by the
\* primitive's equality, and P holds what it held before the call.
C16_ZeroResets ==
    (last.op = "zero" /\ heap.args = <<1>>) =>
        /\ h[Reducer] = expr
        /\ eq(h[Reducer], expr)
        /\ held(heap, Reducer) = expr
        /\ h[1] = last.pre
        /\ held(heap, 1) = last.pre

\* zero() of a tree with children that holds two data
C16_Witness ==
    /\ last.op = "zero" /\ heap.args = <<1>>
    /\ Len(hist[1].fills) = 2
    /\ h[1].kids # <<>>
    /\ FPos(h[1].kids[1].entries)

(***************************************************************************)
(* The claim about reading a Fraction (SpecLoad).                          *)
(***************************************************************************)
\* C20: Fraction load validates co-shape: reading a Fraction fragment
\* succeeds only if numerator + denominator succeeds; a fragment whose two
\* children differ in kind at some depth is refused and makes no Fraction.
C20_LoadValidatesCoShape ==
    (last.op = "loadFraction" /\ ~last.err) =>
        /\ SameShape(numerator(h[last.i]), denominator(h[last.i]))
        /\ ~add(numerator(h[last.i]), denominator(h[last.i])).err

====
